---- MODULE Spec2Model ----
(***************************************************************************)
(* A model of ippy (github.com/azraelsec/ippy): the lexer, the interval    *)
(* parser, the 256-bit octet set, the address parser and the IPExpr        *)
(* compiler / matcher / generator.                                         *)
(*                                                                         *)
(* Strings are sequences of byte values (ASCII codes).  Go's 0-based       *)
(* indices are kept in the records; a sequence is read at index + 1.       *)
(***************************************************************************)
EXTENDS Integers, Sequences, FiniteSets, TLC

(***************************************************************************)
(* Byte values of the characters the program compares against.             *)
(***************************************************************************)
nul == 0
chSpace == 32
chStar == 42
chPlus == 43
chComma == 44
chDash == 45
chDot == 46
ch0 == 48
ch9 == 57
chTab == 9
chA == 97

\* The number of values of a byte, and the largest one.
ByteSize == 256
MaxByte == 255

RECURSIVE Pow2(_)
Pow2(k) == IF k = 0 THEN 1 ELSE 2 * Pow2(k - 1)

(***************************************************************************)
(* package token                                                           *)
(***************************************************************************)
EOF == "EOF"
ILLEGAL == "ILLEGAL"
NUMBER == "NUMBER"
DASH == "DASH"
ASTERISK == "ASTERISK"
COMMA == "COMMA"

token_New(tp, l) == [Type |-> tp, Literal |-> l]

\* The zero value of token.Token (the parser's fields before the first read).
ZeroToken == [Type |-> "", Literal |-> << >>]

(***************************************************************************)
(* package lexer                                                           *)
(***************************************************************************)
readChar(l) ==
    [l EXCEPT !.ch = IF l.readPosition >= Len(l.input)
                       THEN nul
                       ELSE l.input[l.readPosition + 1],
              !.position = l.readPosition,
              !.readPosition = l.readPosition + 1]

lexer_New(s) ==
    readChar([input |-> s, position |-> 0, readPosition |-> 0, ch |-> nul])

isDigit(b) == ch0 <= b /\ b <= ch9

\* a skipWhiteSpaces that steps over one space at most
skipWhiteSpacesOnce(l) == IF l.ch = chSpace THEN readChar(l) ELSE l

RECURSIVE skipWhiteSpaces(_)
skipWhiteSpaces(l) ==
    IF l.ch = chSpace THEN skipWhiteSpaces(readChar(l)) ELSE l

RECURSIVE readDigits(_)
readDigits(l) == IF isDigit(l.ch) THEN readDigits(readChar(l)) ELSE l

\* a readNumberTo that reads one more byte once the run has ended
readNumberToNext(pos, l2) ==
    [lit |-> SubSeq(l2.input, pos + 1, l2.position), l |-> readChar(l2)]

\* readNumber returns input[pos:l.position] and leaves the lexer after the run.
readNumberTo(pos, l2) == [lit |-> SubSeq(l2.input, pos + 1, l2.position), l |-> l2]

readNumber(l) == readNumberTo(l.position, readDigits(l))

numberToken(r) == [tok |-> token_New(NUMBER, r.lit), l |-> r.l]

\* the switch of NextToken, on the lexer after skipWhiteSpaces
scanToken(l) ==
    IF isDigit(l.ch) THEN numberToken(readNumber(l))
    ELSE [tok |-> CASE l.ch = chDash  -> token_New(DASH, <<l.ch>>)
                    [] l.ch = chStar  -> token_New(ASTERISK, <<l.ch>>)
                    [] l.ch = chComma -> token_New(COMMA, <<l.ch>>)
                    [] l.ch = nul     -> token_New(EOF, << >>)
                    [] OTHER          -> token_New(ILLEGAL, <<l.ch>>),
          l |-> readChar(l)]

NextToken(l) == scanToken(skipWhiteSpaces(l))

(***************************************************************************)
(* strconv.Atoi, as the parser uses it: an optional sign, then decimal     *)
(* digits only; a value outside int64 is a range error.  The value is      *)
(* clipped at AtoiClip: the parser only compares it with 0 and 255.        *)
(***************************************************************************)
AtoiClip == 100000

MaxInt64Digits == <<9, 2, 2, 3, 3, 7, 2, 0, 3, 6, 8, 5, 4, 7, 7, 5, 8, 0, 7>>

RECURSIVE stripZeros(_)
stripZeros(ds) ==
    IF Len(ds) > 1 /\ Head(ds) = ch0 THEN stripZeros(Tail(ds)) ELSE ds

RECURSIVE lexGreater(_, _)
lexGreater(a, b) ==
    IF a = << >> THEN FALSE
    ELSE IF Head(a) # Head(b) THEN Head(a) > Head(b)
    ELSE lexGreater(Tail(a), Tail(b))

allDigits(ds) == \A k \in 1..Len(ds) : isDigit(ds[k])

overflowsInt64(ds) ==
    LET z == stripZeros(ds)
    IN \/ Len(z) > Len(MaxInt64Digits)
       \/ /\ Len(z) = Len(MaxInt64Digits)
          /\ lexGreater([k \in 1..Len(z) |-> z[k] - ch0], MaxInt64Digits)

RECURSIVE digitsValue(_, _)
digitsValue(ds, acc) ==
    IF ds = << >> THEN acc
    ELSE LET n == acc * 10 + (Head(ds) - ch0)
         IN digitsValue(Tail(ds), IF n > AtoiClip THEN AtoiClip ELSE n)

Atoi(s) ==
    LET signed == Len(s) > 0 /\ s[1] \in {chPlus, chDash}
        ds == IF signed THEN Tail(s) ELSE s
    IN IF ds = << >> \/ ~allDigits(ds) \/ overflowsInt64(ds)
         THEN [num |-> 0, err |-> TRUE]
         ELSE [num |-> IF signed /\ s[1] = chDash
                         THEN 0 - digitsValue(ds, 0)
                         ELSE digitsValue(ds, 0),
               err |-> FALSE]

(***************************************************************************)
(* package parser.  A diagnostic is kept as a record: Expected(t, found)   *)
(* is "expected current token type is <t>, found <found>", NotValid(lit)   *)
(* is "numeric value <lit> is not valid", AtLeastOne is "a valid octet     *)
(* should have at least 1 range".                                          *)
(***************************************************************************)
Expected(t, found) == [kind |-> "expected", want |-> t, found |-> found, lit |-> << >>]
NotValid(lit) == [kind |-> "numeric", want |-> "", found |-> "", lit |-> lit]
AtLeastOne == [kind |-> "atleast1", want |-> "", found |-> "", lit |-> << >>]

shiftToken(p, r) ==
    [p EXCEPT !.currToken = p.peekToken, !.peekToken = r.tok, !.l = r.l]

nextToken(p) == shiftToken(p, NextToken(p.l))

currTokenIs(p, t) == p.currToken.Type = t

peekTokenIs(p, t) == p.peekToken.Type = t

currError(p, t) ==
    [p EXCEPT !.errors = Append(p.errors, Expected(t, p.currToken.Type))]

numberParsingError(p) ==
    [p EXCEPT !.errors = Append(p.errors, NotValid(p.currToken.Literal))]

expectCurrIs(p, t) ==
    IF ~currTokenIs(p, t)
      THEN [ok |-> FALSE, p |-> currError(p, t)]
      ELSE [ok |-> TRUE, p |-> nextToken(p)]

\* a checkNumber with no upper limit: the value is cut to its low eight bits
checkNumberWrap(p, a) ==
    IF a.err \/ a.num < 0
      THEN [num |-> 0, ok |-> FALSE, p |-> numberParsingError(p)]
      ELSE [num |-> a.num % ByteSize, ok |-> TRUE, p |-> nextToken(p)]

\* parseNumber once strconv.Atoi has returned a
checkNumber(p, a) ==
    IF a.err \/ a.num < 0 \/ a.num > MaxByte
      THEN [num |-> 0, ok |-> FALSE, p |-> numberParsingError(p)]
      ELSE [num |-> a.num % ByteSize, ok |-> TRUE, p |-> nextToken(p)]

parseNumber(p) ==
    IF ~currTokenIs(p, NUMBER)
      THEN [num |-> 0, ok |-> FALSE, p |-> currError(p, NUMBER)]
      ELSE checkNumber(p, Atoi(p.currToken.Literal))

\* a wildcard interval that stops one short
WildcardIntervalShort == <<0, MaxByte - 1>>

\* The interval the wildcard term compiles to.
WildcardInterval == <<0, MaxByte>>

ZeroInterval == <<0, 0>>

\* a rangeTerm that puts the bounds in order
rangeTermSorted(start, e) ==
    IF ~e.ok
      THEN [it |-> ZeroInterval, ok |-> FALSE, p |-> numberParsingError(e.p)]
      ELSE [it |-> IF start <= e.num THEN <<start, e.num>> ELSE <<e.num, start>>,
            ok |-> TRUE, p |-> e.p]

\* parseTerm after the DASH: e is what parseNumber returned for the end
rangeTerm(start, e) ==
    IF ~e.ok
      THEN [it |-> ZeroInterval, ok |-> FALSE, p |-> numberParsingError(e.p)]
      ELSE [it |-> <<start, e.num>>, ok |-> TRUE, p |-> e.p]

\* a numberTerm that compiles a bare number n to the interval from 0 to n
numberTermFrom0(s) ==
    IF ~s.ok
      THEN [it |-> ZeroInterval, ok |-> FALSE, p |-> numberParsingError(s.p)]
      ELSE IF ~currTokenIs(s.p, DASH)
        THEN [it |-> <<0, s.num>>, ok |-> TRUE, p |-> s.p]
        ELSE rangeTerm(s.num, parseNumber(nextToken(s.p)))

\* parseTerm on a term that is no '*': s is what parseNumber returned for the start
numberTerm(s) ==
    IF ~s.ok
      THEN [it |-> ZeroInterval, ok |-> FALSE, p |-> numberParsingError(s.p)]
      ELSE IF ~currTokenIs(s.p, DASH)
        THEN [it |-> <<s.num, s.num>>, ok |-> TRUE, p |-> s.p]
        ELSE rangeTerm(s.num, parseNumber(nextToken(s.p)))

\* a parseTerm that leaves the '*' it has recognised as the current token
parseTermStay(p) ==
    IF currTokenIs(p, ASTERISK)
      THEN [it |-> WildcardInterval, ok |-> TRUE, p |-> p]
      ELSE numberTerm(parseNumber(p))

parseTerm(p) ==
    IF currTokenIs(p, ASTERISK)
      THEN [it |-> WildcardInterval, ok |-> TRUE, p |-> nextToken(p)]
      ELSE numberTerm(parseNumber(p))

\* if !p.peekTokenIs(token.EOF) { p.expectCurrIs(token.COMMA) }: the result is dropped
afterTerm(p) ==
    IF ~peekTokenIs(p, EOF) THEN expectCurrIs(p, COMMA).p ELSE p

\* The loop of parseExpr; t is what parseTerm returned in this iteration.
RECURSIVE parseExprLoop(_, _)
parseExprStep(t, intervals) ==
    IF ~t.ok
      THEN [its |-> << >>, ok |-> FALSE, p |-> t.p]
      ELSE parseExprLoop(afterTerm(t.p), Append(intervals, t.it))

parseExprLoop(p, intervals) ==
    IF currTokenIs(p, EOF)
      THEN [its |-> intervals, ok |-> TRUE, p |-> p]
      ELSE parseExprStep(parseTerm(p), intervals)

parseExpr(p) == parseExprLoop(p, << >>)

\* a checkExpr that fails on no interval without recording a diagnostic
checkExprSilent(r) ==
    IF ~r.ok \/ Len(r.its) = 0
      THEN [its |-> << >>, ok |-> FALSE, p |-> r.p]
      ELSE [its |-> r.its, ok |-> TRUE, p |-> r.p]

\* a checkExpr that lets an empty interval sequence through
checkExprLenient(r) ==
    IF ~r.ok
      THEN [its |-> << >>, ok |-> FALSE, p |-> r.p]
      ELSE [its |-> r.its, ok |-> TRUE, p |-> r.p]

\* Parse, on what parseExpr returned
checkExpr(r) ==
    IF ~r.ok
      THEN [its |-> << >>, ok |-> FALSE, p |-> r.p]
      ELSE IF Len(r.its) = 0
        THEN [its |-> << >>, ok |-> FALSE,
              p |-> [r.p EXCEPT !.errors = Append(r.p.errors, AtLeastOne)]]
        ELSE [its |-> r.its, ok |-> TRUE, p |-> r.p]

parser_Parse(p) == checkExpr(parseExpr(p))

parser_New(s) ==
    nextToken(nextToken([l |-> lexer_New(s), errors |-> << >>,
                         currToken |-> ZeroToken, peekToken |-> ZeroToken]))

(***************************************************************************)
(* package bitsvector: 32 bytes, bit n of the set is bit n % 8 of byte     *)
(* n / 8.                                                                  *)
(***************************************************************************)
OctetBytes == 32
BitsPerByte == 8

AllSet == [k \in 0..(OctetBytes - 1) |-> MaxByte]

ZeroBits == [k \in 0..(OctetBytes - 1) |-> 0]

IsOctetBits(o) == DOMAIN o = 0..(OctetBytes - 1)

bitIsSet(b, k) == (b \div Pow2(k)) % 2 = 1

\* b | (1 << k) on a byte
orBit(b, k) == IF bitIsSet(b, k) THEN b ELSE b + Pow2(k)

set(o, n) ==
    [o EXCEPT ![n \div BitsPerByte] = orBit(o[n \div BitsPerByte], n % BitsPerByte)]

Test(o, n) == bitIsSet(o[n \div BitsPerByte], n % BitsPerByte)

(***************************************************************************)
(* for i := start; i <= end; i++ { ob.set(byte(i)) }: the calls of set in  *)
(* the loop's order, the range split in halves to keep the evaluation      *)
(* shallow (the lower half is a value before the upper half starts).       *)
(***************************************************************************)
RECURSIVE setRange(_, _, _)
setRange(ob, i, end) ==
    IF i > end THEN ob
    ELSE IF i = end THEN set(ob, i % ByteSize)
    ELSE LET mid == (i + end) \div 2
             low == setRange(ob, i, mid)
         IN IF IsOctetBits(low) THEN setRange(low, mid + 1, end) ELSE low

RECURSIVE setIntervals(_, _)
setIntervals(ob, its) ==
    IF its = << >> THEN ob
    ELSE setIntervals(setRange(ob, Head(its)[1], Head(its)[2]), Tail(its))

\* a fast path taken for any single interval that ends at 255
IsAllSetCaseLoose(its) == Len(its) = 1 /\ its[1][2] = MaxByte

IsAllSetCase(its) ==
    Len(its) = 1 /\ its[1][1] = its[1][2] /\ its[1][1] = MaxByte

bitsvector_New(its) ==
    IF IsAllSetCase(its) THEN AllSet ELSE setIntervals(ZeroBits, its)

(***************************************************************************)
(* Errors are records; NoError is Go's nil error.                          *)
(***************************************************************************)
NoError == [kind |-> "nil", text |-> << >>]

IsErr(e) == e.kind # "nil"

(***************************************************************************)
(* strings.Split(s, "."): the pieces between the separators, always at     *)
(* least one piece (the empty string splits into one empty piece).         *)
(***************************************************************************)
RECURSIVE splitFrom(_, _, _, _)
splitFrom(s, k, cur, acc) ==
    IF k > Len(s) THEN Append(acc, cur)
    ELSE IF s[k] = chDot THEN splitFrom(s, k + 1, << >>, Append(acc, cur))
    ELSE splitFrom(s, k + 1, Append(cur, s[k]), acc)

Split(s) == splitFrom(s, 1, << >>, << >>)

(***************************************************************************)
(* package ip                                                              *)
(***************************************************************************)
\* strconv.ParseUint(s, 10, 8): digits only, no sign, not empty, at most 255.
\* a ParseUint loop with the range of 16 bits
RECURSIVE parseUintLoopWide(_, _, _)
parseUintLoopWide(s, k, n) ==
    IF k > Len(s) THEN [val |-> n, err |-> NoError]
    ELSE IF ~isDigit(s[k]) THEN [val |-> 0, err |-> [kind |-> "syntax", text |-> s]]
    ELSE IF n * 10 + (s[k] - ch0) > ByteSize * ByteSize - 1
      THEN [val |-> MaxByte, err |-> [kind |-> "range", text |-> s]]
      ELSE parseUintLoopWide(s, k + 1, n * 10 + (s[k] - ch0))

RECURSIVE parseUintLoop(_, _, _)
parseUintLoop(s, k, n) ==
    IF k > Len(s) THEN [val |-> n, err |-> NoError]
    ELSE IF ~isDigit(s[k]) THEN [val |-> 0, err |-> [kind |-> "syntax", text |-> s]]
    ELSE IF n * 10 + (s[k] - ch0) > MaxByte
      THEN [val |-> MaxByte, err |-> [kind |-> "range", text |-> s]]
      ELSE parseUintLoop(s, k + 1, n * 10 + (s[k] - ch0))

\* a ParseUint that reads the empty text as 0
ParseUint8Empty(s) == parseUintLoop(s, 1, 0)

ParseUint8(s) ==
    IF s = << >> THEN [val |-> 0, err |-> [kind |-> "syntax", text |-> s]]
    ELSE parseUintLoop(s, 1, 0)

\* net.IPv4zero, the 16-byte form of 0.0.0.0
IPv4zero == <<0, 0, 0, 0, 0, 0, 0, 0, 0, 0, MaxByte, MaxByte, 0, 0, 0, 0>>

IPv4Len == 4

\* for i, os := range parts { octet, err := strconv.ParseUint(os, 10, 8); ... }
RECURSIVE parseOctets(_, _, _)
storeByte(parts, i, octets, r) ==
    IF IsErr(r.err)
      THEN [ip |-> IPv4zero, err |-> r.err]
      ELSE parseOctets(parts, i + 1, [octets EXCEPT ![i] = r.val % ByteSize])

parseOctets(parts, i, octets) ==
    IF i > Len(parts) THEN [ip |-> octets, err |-> NoError]
    ELSE storeByte(parts, i, octets, ParseUint8(parts[i]))

addressOf(s, parts) ==
    IF Len(parts) # IPv4Len
      THEN [ip |-> IPv4zero, err |-> [kind |-> "invalid ip", text |-> s]]
      ELSE parseOctets(parts, 1, <<0, 0, 0, 0>>)

ip_Parse(s) == addressOf(s, Split(s))

(***************************************************************************)
(* package ipexpr.  An IPExpr is its four octet sets, position 1 the most  *)
(* significant; << >> stands for the nil pointer.                          *)
(***************************************************************************)
NilExpr == << >>

\* parseOctet, on what parser.New(o).Parse() returned
octetOf(o, r) ==
    IF ~r.ok
      THEN [bv |-> ZeroBits, err |-> [kind |-> "invalid octet format", text |-> o]]
      ELSE [bv |-> bitsvector_New(r.its), err |-> NoError]

parseOctet(o) == octetOf(o, parser_Parse(parser_New(o)))

\* for i, part := range parts { bv, err := parseOctet(part); ... ip.octets[i] = bv }
RECURSIVE parseParts(_, _, _)
\* a storeOctet that returns the octets compiled so far along with the error
storeOctetKeep(parts, i, octets, r) ==
    IF IsErr(r.err)
      THEN [ie |-> octets, err |-> r.err]
      ELSE parseParts(parts, i + 1, [octets EXCEPT ![i] = r.bv])

storeOctet(parts, i, octets, r) ==
    IF IsErr(r.err)
      THEN [ie |-> NilExpr, err |-> r.err]
      ELSE parseParts(parts, i + 1, [octets EXCEPT ![i] = r.bv])

parseParts(parts, i, octets) ==
    IF i > Len(parts) THEN [ie |-> octets, err |-> NoError]
    ELSE storeOctet(parts, i, octets, parseOctet(parts[i]))

compileParts(e, parts) ==
    IF Len(parts) # IPv4Len
      THEN [ie |-> NilExpr, err |-> [kind |-> "invalid ip expression", text |-> e]]
      ELSE parseParts(parts, 1, <<ZeroBits, ZeroBits, ZeroBits, ZeroBits>>)

ipexpr_Parse(e) == compileParts(e, Split(e))

\* a matchLoop that leaves the last octet out
RECURSIVE matchLoopShort(_, _, _)
matchLoopShort(octets, ip, i) ==
    IF i >= Len(ip) THEN TRUE
    ELSE IF ~Test(octets[i], ip[i]) THEN FALSE
    ELSE matchLoopShort(octets, ip, i + 1)

\* for i, octet := range ip { if !ie.octets[i].Test(octet) { return false, nil } }
RECURSIVE matchLoop(_, _, _)
matchLoop(octets, ip, i) ==
    IF i > Len(ip) THEN TRUE
    ELSE IF ~Test(octets[i], ip[i]) THEN FALSE
    ELSE matchLoop(octets, ip, i + 1)

\* Matches, on what ip.Parse returned
matchAddress(octets, r) ==
    IF IsErr(r.err)
      THEN [ok |-> FALSE, err |-> r.err]
      ELSE [ok |-> matchLoop(octets, r.ip, 1), err |-> NoError]

Matches(octets, a) == matchAddress(octets, ip_Parse(a))

(***************************************************************************)
(* Generate.  The iterator's state is i and counter; one resumption runs   *)
(* the loop from its test to the next yield or to the return.              *)
(***************************************************************************)
ZeroCounter == <<0, 0, 0, 0>>

\* a loop test with == for !=
loopCondEq(c) == c[1] = 0 /\ c[2] = 0 /\ c[3] = 0 /\ c[4] = 0

\* for counter[0] != 0 && counter[1] != 0 && counter[2] != 0 && counter[3] != 0
loopCond(c) == c[1] # 0 /\ c[2] # 0 /\ c[3] # 0 /\ c[4] # 0

(***************************************************************************)
(* The inner search for the next member:                                   *)
(*   for { c = (c+1) % 256; if c == 0 { carry = true }; if Test(c) break } *)
(* memberStep is one iteration, memberIter runs 2^k of them (stopping at   *)
(* the break).  After 256 iterations without a member every value has      *)
(* tested false and the loop is back where it started with carry set, so   *)
(* it never ends: spins reports that.                                      *)
(***************************************************************************)
memberStep(ob, st) ==
    LET c1 == (st.c + 1) % ByteSize
    IN [c |-> c1, carry |-> st.carry \/ c1 = 0, found |-> Test(ob, c1)]

\* the loop from a state s already computed: run 2^k more iterations unless found
RECURSIVE memberIter(_, _, _)
memberFrom(ob, s, k) ==
    IF s.found THEN s
    ELSE IF k = 0 THEN memberStep(ob, s)
    ELSE memberIter(ob, memberIter(ob, s, k - 1), k - 1)

\* st is computed once, then the loop goes on from it
memberIter(ob, st, k) == CHOOSE r \in {memberFrom(ob, s, k) : s \in {st}} : TRUE

searchResult(r) == [c |-> r.c, carry |-> r.carry, spins |-> ~r.found]

nextMember(ob, c) ==
    searchResult(memberIter(ob, [c |-> c, carry |-> FALSE, found |-> FALSE], BitsPerByte))

\* for i := range 4 { ...counter[3-i]...; if !carry { break } }
RECURSIVE advance(_, _, _)
carryOn(octets, c1, i, r) ==
    IF r.spins THEN [c |-> c1, spins |-> TRUE]
    ELSE IF ~r.carry THEN [c |-> c1, spins |-> FALSE]
    ELSE advance(octets, c1, i + 1)

advanceAt(octets, c, i, pos, r) == carryOn(octets, [c EXCEPT ![pos] = r.c], i, r)

advance(octets, c, i) ==
    IF i >= IPv4Len THEN [c |-> c, spins |-> FALSE]
    ELSE CHOOSE a \in {advanceAt(octets, c, i, IPv4Len - i, r) :
                          r \in {nextMember(octets[IPv4Len - i], c[IPv4Len - i])}} : TRUE

(***************************************************************************)
(* Inputs.  A pattern is a run of '.'-joined components.  In RichPatterns  *)
(* the first or the last component ranges over every string of at most     *)
(* MaxCompLen bytes of CompAlphabet while the others are the filler "2";   *)
(* SmallPatterns has every pattern of at most MaxParts components of       *)
(* SmallComps.                                                             *)
(***************************************************************************)
\* the text of a sequence of decimal digits
DigitText(ns) == [k \in 1..Len(ns) |-> ch0 + ns[k]]

MaxCompLen == 3
MaxParts == 5

Strs(A, n) == UNION {[1..k -> A] : k \in 0..n}

RECURSIVE Join(_)
Join(parts) ==
    IF Len(parts) = 0 THEN << >>
    ELSE IF Len(parts) = 1 THEN parts[1]
    ELSE parts[1] \o <<chDot>> \o Join(Tail(parts))

\* the digit characters used in the inputs
d0 == ch0
d2 == ch0 + 2
d5 == ch0 + 5
d6 == ch0 + 6

CompAlphabet == {d0, d2, d5, chDash, chStar, chComma, chSpace, chA}

Filler == <<d2>>

OneVaried(pos, c) == Join([k \in 1..IPv4Len |-> IF k = pos THEN c ELSE Filler])

SmallComps == {<<d2>>, <<d2, chDash, d5>>, <<chStar>>, <<chA>>}

RichPositions == {1, IPv4Len}

RichPatterns ==
    {OneVaried(pos, c) : pos \in RichPositions, c \in Strs(CompAlphabet, MaxCompLen)}

SmallPatterns ==
    {Join(parts) : parts \in UNION {[1..n -> SmallComps] : n \in 0..MaxParts}}

\* patterns whose first two components are each valid, invalid, or two terms
\* with no comma between them
PairComps == {<<d2>>, <<d2, chSpace, d5>>, <<chA>>, <<d2, d5, d6>>}

PairPatterns == {Join(<<c1, c2, Filler, Filler>>) : c1 \in PairComps, c2 \in PairComps}

Patterns == RichPatterns \cup SmallPatterns \cup PairPatterns

(***************************************************************************)
(* Addresses handed to Matches: one component varied and the others "2";   *)
(* every address over "2" and "5"; and runs of other than four components. *)
(***************************************************************************)
AddrComps ==
    {<<d0>>, <<d5>>, <<d2, d0>>, <<d2, d5, d5>>, <<d2, d5, d6>>, <<chA>>, << >>}

Addresses ==
    {OneVaried(pos, c) : pos \in 1..IPv4Len, c \in AddrComps}
    \cup {Join(parts) : parts \in [1..IPv4Len -> {<<d2>>, <<d5>>}]}
    \cup {Join([k \in 1..n |-> Filler]) : n \in 0..MaxParts}

(***************************************************************************)
(* The state: the pattern text, the result of ipexpr.Parse, the last       *)
(* Matches call and its result, and one Generate iterator.  ref is a       *)
(* history variable: once Parse has returned a pattern, the octet set each *)
(* of the four components of the text compiles to on its own.              *)
(***************************************************************************)
VARIABLES expr, pc, ie, err, addr, mres, gpc, counter, gi, yielded, ref

(***************************************************************************)
(* The state of the packages run on their own: a lexer and the tokens it   *)
(* has returned; a parser inside Parse, the intervals collected so far,    *)
(* where Parse is and what it returned; an interval list handed to         *)
(* bitsvector.New with the set built from it, the set built before it and  *)
(* where the caller is;                                                    *)
(* and the Matches calls in flight, one per caller.                        *)
(***************************************************************************)
VARIABLES lx, toks, pst, pits, ppc, pres, bl, bv, bprev, bpc, calls

\* a text handed to ip.Parse, what it returned and whether it has returned
VARIABLES ipin, ipres, ipc

ipvars == <<ipin, ipres, ipc>>

lexvars == <<lx, toks>>

parservars == <<pst, pits, ppc, pres>>

bitsvars == <<bl, bv, bprev, bpc>>

vars == <<expr, pc, ie, err, addr, mres, gpc, counter, gi, yielded, ref,
          lexvars, parservars, bitsvars, calls, ipvars>>

NoResult == [called |-> FALSE, ok |-> FALSE, err |-> NoError]

\* no lexer under observation: one on the empty input, nothing returned
NoLexer == lx = lexer_New(<< >>) /\ toks = << >>

NoParse == [its |-> << >>, ok |-> FALSE]

\* no Parse under observation
NoParser ==
    /\ pst = parser_New(<< >>)
    /\ pits = << >>
    /\ ppc = "none"
    /\ pres = NoParse

\* no bitsvector.New under observation
NoBits == bl = << >> /\ bv = ZeroBits /\ bprev = ZeroBits /\ bpc = "none"

\* the callers of Matches, and a caller that is in no call
NumCallers == 2

Callers == 1..NumCallers

IdleCall ==
    [pc |-> "idle", a |-> << >>, octets |-> << >>, ip |-> << >>, i |-> 0,
     ok |-> FALSE, err |-> NoError]

NoCalls == calls = [c \in Callers |-> IdleCall]

\* no ip.Parse under observation
NoAddress ==
    /\ ipin = << >>
    /\ ipres = [ip |-> IPv4zero, err |-> NoError]
    /\ ipc = "none"

\* the octet set of each component of the text e, compiled on its own
EachCompiled(e) == [i \in 1..Len(Split(e)) |-> parseOctet(Split(e)[i]).bv]

Init ==
    /\ expr \in Patterns
    /\ pc = "start"
    /\ ie = NilExpr
    /\ err = NoError
    /\ addr = << >>
    /\ mres = NoResult
    /\ gpc = "none"
    /\ counter = ZeroCounter
    /\ gi = 0
    /\ yielded = << >>
    /\ ref = << >>
    /\ NoLexer /\ NoParser /\ NoBits /\ NoCalls /\ NoAddress

\* ipexpr.Parse(expr)
ParseCall ==
    /\ pc = "start"
    /\ \E r \in {ipexpr_Parse(expr)} :
          /\ ie' = r.ie
          /\ err' = r.err
          /\ pc' = IF IsErr(r.err) THEN "failed" ELSE "parsed"
          /\ ref' = IF IsErr(r.err) THEN << >> ELSE EachCompiled(expr)
    /\ UNCHANGED <<expr, addr, mres, gpc, counter, gi, yielded>>
    /\ UNCHANGED <<lexvars, parservars, bitsvars, calls, ipvars>>

\* ie.Matches(a), a drawn from S; a run makes one call
MatchesCall(S) ==
    /\ pc = "parsed"
    /\ ~mres.called
    /\ \E a \in S :
         \E r \in {Matches(ie, a)} :
            /\ addr' = a
            /\ mres' = [called |-> TRUE, ok |-> r.ok, err |-> r.err]
    /\ UNCHANGED <<expr, pc, ie, err, gpc, counter, gi, yielded, ref>>
    /\ UNCHANGED <<lexvars, parservars, bitsvars, calls, ipvars>>

\* ie.Generate(): i := 0; counter := [4]int{}
GenerateCall ==
    /\ pc = "parsed"
    /\ gpc = "none"
    /\ gpc' = "running"
    /\ counter' = ZeroCounter
    /\ gi' = 0
    /\ yielded' = << >>
    /\ UNCHANGED <<expr, pc, ie, err, addr, mres, ref>>
    /\ UNCHANGED <<lexvars, parservars, bitsvars, calls, ipvars>>

(***************************************************************************)
(* The consumer resumes the iterator: the loop test, then the body up to   *)
(* yield(i, ip); the consumer either goes on (i++) or breaks.              *)
(***************************************************************************)
GenerateResume ==
    /\ gpc = "running"
    /\ IF ~loopCond(counter)
         THEN /\ gpc' = "done"
              /\ UNCHANGED <<counter, gi, yielded>>
         ELSE \E ip \in {[k \in 1..IPv4Len |-> counter[k] % ByteSize]},
                 r \in {advance(ie, counter, 0)} :
                 /\ counter' = r.c
                 /\ IF r.spins
                      THEN /\ gpc' = "spinning"
                           /\ UNCHANGED <<gi, yielded>>
                      ELSE /\ yielded' = Append(yielded, <<gi, ip>>)
                           /\ \E goOn \in BOOLEAN :
                                IF goOn
                                  THEN gpc' = "running" /\ gi' = gi + 1
                                  ELSE gpc' = "stopped" /\ gi' = gi
    /\ UNCHANGED <<expr, pc, ie, err, addr, mres, ref>>
    /\ UNCHANGED <<lexvars, parservars, bitsvars, calls, ipvars>>

Next ==
    \/ ParseCall
    \/ MatchesCall(Addresses)
    \/ GenerateCall
    \/ GenerateResume

Spec == Init /\ [][Next]_vars

(***************************************************************************)
(* A second specification for the address parser: few patterns, and        *)
(* addresses whose first or last component is any string of at most        *)
(* MaxAddrLen bytes of AddrAlphabet.                                       *)
(***************************************************************************)
MaxAddrLen == 3

AddrAlphabet == {d0, d2, d5, d6, chPlus, chSpace, chA}

RichAddresses ==
    {OneVaried(pos, c) : pos \in RichPositions, c \in Strs(AddrAlphabet, MaxAddrLen)}
    \cup Addresses

AddrPatterns == {Join(parts) : parts \in [1..IPv4Len -> {<<d2>>, <<chStar>>}]}

InitAddr ==
    /\ expr \in AddrPatterns
    /\ pc = "start"
    /\ ie = NilExpr
    /\ err = NoError
    /\ addr = << >>
    /\ mres = NoResult
    /\ gpc = "none"
    /\ counter = ZeroCounter
    /\ gi = 0
    /\ yielded = << >>
    /\ ref = << >>
    /\ NoLexer /\ NoParser /\ NoBits /\ NoCalls /\ NoAddress

NextAddr ==
    \/ ParseCall
    \/ MatchesCall(RichAddresses)
    \/ GenerateCall
    \/ GenerateResume

SpecAddr == InitAddr /\ [][NextAddr]_vars

(***************************************************************************)
(* What the properties below are stated with.                              *)
(***************************************************************************)
Bytes == 0..MaxByte

Positions == 1..IPv4Len

\* the '.'-separated components of the pattern text
parts == Split(expr)

RECURSIVE DecValue(_)
DecValue(ds) ==
    IF ds = << >> THEN 0
    ELSE 10 * DecValue(SubSeq(ds, 1, Len(ds) - 1)) + (ds[Len(ds)] - ch0)

IsDigitRun(ds) == ds # << >> /\ \A k \in 1..Len(ds) : ds[k] \in ch0..ch9

\* a non-empty run of decimal digits whose value is at most 255
IsByteText(ds) ==
    IsDigitRun(ds) /\ Len(stripZeros(ds)) <= 3 /\ DecValue(stripZeros(ds)) <= MaxByte

\* a well-formed dotted-decimal address, and its four bytes
AllByteTexts(ps) == Len(ps) = IPv4Len /\ \A i \in Positions : IsByteText(ps[i])

WellFormed(a) == AllByteTexts(Split(a))

AddrBytes(a) == [i \in Positions |-> DecValue(Split(a)[i])]

Members(ob) == {v \in Bytes : Test(ob, v)}

\* the number of member values at position i
Count(octets, i) == Cardinality(Members(octets[i]))

\* the product of the member counts at the first three positions (below 2^25)
Product3(octets) == Count(octets, 1) * Count(octets, 2) * Count(octets, 3)

\* n <= the product of the four member counts, computed without 32-bit overflow
AtMostProduct(n, octets) ==
    \/ n = 0
    \/ /\ Count(octets, IPv4Len) # 0
       /\ Product3(octets) >= n \/ Product3(octets) * Count(octets, IPv4Len) >= n

\* n = the product of the four member counts, computed without 32-bit overflow
EqualsProduct(n, octets) ==
    IF Count(octets, IPv4Len) = 0 THEN n = 0
    ELSE Product3(octets) <= n /\ Product3(octets) * Count(octets, IPv4Len) = n

\* the state right after ipexpr.Parse returned a pattern
JustParsed == pc = "parsed" /\ ~mres.called /\ gpc = "none"

\* the intervals the interval parser returns for a component
IntervalsOf(c) == parser_Parse(parser_New(c)).its

InSomeInterval(its, v) == \E k \in 1..Len(its) : its[k][1] <= v /\ v <= its[k][2]

(***************************************************************************)
(* C1: after ipexpr.Parse succeeds, Matches on a well-formed address       *)
(* returns (true, nil) exactly when, at each of the four positions, the    *)
(* octet set compiled from the pattern's component at that position tests  *)
(* true on the address's byte at that position, and (false, nil)           *)
(* otherwise.                                                              *)
(***************************************************************************)
C1_MatchesIffEveryOctetMember ==
    (pc = "parsed" /\ mres.called /\ WellFormed(addr)) =>
        /\ ~IsErr(mres.err)
        /\ mres.ok = (\A i \in Positions : Test(ref[i], DecValue(Split(addr)[i])))

C1_Witness ==
    /\ pc = "parsed" /\ mres.called /\ mres.ok
    /\ WellFormed(addr)
    /\ addr # expr
    /\ parts[1] # parts[IPv4Len]

(***************************************************************************)
(* C2: for a component that parses, the octet set tests true on v exactly  *)
(* when some parsed interval {low, high} has low <= v <= high; a bare      *)
(* number n matches n and nothing else.  (Fails for the component "255".)  *)
(***************************************************************************)
C2_TestIffInSomeInterval ==
    JustParsed =>
        \A i \in Positions : \A v \in Bytes :
            Test(ie[i], v) <=> InSomeInterval(IntervalsOf(parts[i]), v)

(***************************************************************************)
(* C3: iterating Generate() to its end yields exactly the addresses the    *)
(* pattern matches, each once: as many as the product of the four member   *)
(* counts, all matching, no two equal.  (Generate yields nothing.)         *)
(***************************************************************************)
C3_GenerateYieldsExactlyTheMatches ==
    gpc = "done" =>
        /\ EqualsProduct(Len(yielded), ie)
        /\ \A k \in 1..Len(yielded) :
              \A i \in Positions : Test(ie[i], yielded[k][2][i])
        /\ \A j, k \in 1..Len(yielded) : j # k => yielded[j][2] # yielded[k][2]

(***************************************************************************)
(* A third specification for the iterator: every pattern of four           *)
(* components drawn from a number, a reversed range (no member), a list    *)
(* and the wildcard, and two addresses.  Once the consumer has called the  *)
(* iterator the loop of Generate runs: a resumption that is possible is    *)
(* eventually taken.                                                       *)
(***************************************************************************)
GenComps == {<<d2>>, <<d5, chDash, d2>>, <<d2, chComma, d5>>, <<chStar>>}

GenPatterns == {Join(ps) : ps \in [1..IPv4Len -> GenComps]}

GenAddresses == {Join([k \in 1..IPv4Len |-> <<d>>]) : d \in {d2, d5}}

InitGen ==
    /\ expr \in GenPatterns
    /\ pc = "start"
    /\ ie = NilExpr
    /\ err = NoError
    /\ addr = << >>
    /\ mres = NoResult
    /\ gpc = "none"
    /\ counter = ZeroCounter
    /\ gi = 0
    /\ yielded = << >>
    /\ ref = << >>
    /\ NoLexer /\ NoParser /\ NoBits /\ NoCalls /\ NoAddress

NextGen ==
    \/ ParseCall
    \/ MatchesCall(GenAddresses)
    \/ GenerateCall
    \/ GenerateResume

SpecLive == InitGen /\ [][NextGen]_vars /\ WF_vars(GenerateResume)

\* the iteration has ended, with no more yields than the product of the member counts
Terminated ==
    /\ gpc \in {"done", "stopped"}
    /\ AtMostProduct(Len(yielded), ie)

(***************************************************************************)
(* C6: iterating Generate() terminates: an iteration that has started      *)
(* ends (the loop returns or the consumer breaks) having yielded no more   *)
(* addresses than the product of the member counts; no resumption searches *)
(* forever for a next member, also when an octet set is empty.             *)
(***************************************************************************)
C6_GenerateTerminates == (gpc = "running") ~> Terminated

C6_Witness ==
    /\ gpc = "done"
    /\ yielded = << >>
    /\ \E i \in Positions : Members(ie[i]) = {}

(***************************************************************************)
(* The grammar of an octet-expression, read off the text: terms separated  *)
(* by ',', a term being '*', a number or number '-' number, each number a  *)
(* digit run of value at most 255, with spaces allowed around the tokens.  *)
(***************************************************************************)
RECURSIVE SplitAt(_, _, _, _, _)
SplitAt(s, sep, k, cur, acc) ==
    IF k > Len(s) THEN Append(acc, cur)
    ELSE IF s[k] = sep THEN SplitAt(s, sep, k + 1, << >>, Append(acc, cur))
    ELSE SplitAt(s, sep, k + 1, Append(cur, s[k]), acc)

RECURSIVE TrimLeft(_)
TrimLeft(s) == IF s # << >> /\ Head(s) = chSpace THEN TrimLeft(Tail(s)) ELSE s

RECURSIVE TrimRight(_)
TrimRight(s) ==
    IF s # << >> /\ s[Len(s)] = chSpace THEN TrimRight(SubSeq(s, 1, Len(s) - 1)) ELSE s

Trim(s) == TrimRight(TrimLeft(s))

IsRangeText(t) ==
    \E k \in 1..Len(t) :
        /\ t[k] = chDash
        /\ IsByteText(Trim(SubSeq(t, 1, k - 1)))
        /\ IsByteText(Trim(SubSeq(t, k + 1, Len(t))))

IsTermText(t) == t = <<chStar>> \/ IsByteText(t) \/ IsRangeText(t)

ValidOctetExpr(c) ==
    \A k \in 1..Len(SplitAt(c, chComma, 1, << >>, << >>)) :
        IsTermText(Trim(SplitAt(c, chComma, 1, << >>, << >>)[k]))

\* a component "s-e" with s > e, both at most 255
IsReversedRange(c) ==
    \E k \in 1..Len(c) :
        /\ c[k] = chDash
        /\ IsByteText(SubSeq(c, 1, k - 1))
        /\ IsByteText(SubSeq(c, k + 1, Len(c)))
        /\ DecValue(SubSeq(c, 1, k - 1)) > DecValue(SubSeq(c, k + 1, Len(c)))

ReversedBounds(c) ==
    LET k == CHOOSE j \in 1..Len(c) : c[j] = chDash
    IN <<DecValue(SubSeq(c, 1, k - 1)), DecValue(SubSeq(c, k + 1, Len(c)))>>

AllWild == Join([k \in Positions |-> <<chStar>>])

(***************************************************************************)
(* C7: the component "*" and the interval list [{0,255}] both give an      *)
(* octet set that tests true on all 256 values, and the pattern "*.*.*.*"  *)
(* matches every well-formed address.                                      *)
(***************************************************************************)
C7_WildcardMatchesAll ==
    /\ JustParsed =>
          /\ Members(bitsvector_New(<<<<0, MaxByte>>>>)) = Bytes
          /\ \A i \in Positions : parts[i] = <<chStar>> => Members(ie[i]) = Bytes
    /\ (pc = "parsed" /\ expr = AllWild /\ mres.called /\ WellFormed(addr)) =>
          mres.ok /\ ~IsErr(mres.err)

C7_Witness ==
    /\ pc = "parsed" /\ expr = AllWild
    /\ mres.called /\ mres.ok
    /\ \E i \in Positions : Split(addr)[i] = <<d2, d5, d5>>

(***************************************************************************)
(* C8: a component "s-e" with s > e is no error: it parses to the one      *)
(* interval {s, e}, its octet set tests false on all 256 values, and a     *)
(* pattern that has it matches no address.                                 *)
(***************************************************************************)
C8_ReversedRangeIsEmpty ==
    \A i \in 1..Len(parts) :
        IsReversedRange(parts[i]) =>
            /\ pc = "failed" =>
                  err # [kind |-> "invalid octet format", text |-> parts[i]]
            /\ JustParsed =>
                  /\ IntervalsOf(parts[i]) = <<ReversedBounds(parts[i])>>
                  /\ Members(ie[i]) = {}
            /\ (pc = "parsed" /\ mres.called) => ~mres.ok

C8_Witness ==
    /\ pc = "parsed" /\ mres.called
    /\ WellFormed(addr)
    /\ \E i \in Positions : IsReversedRange(parts[i])

(***************************************************************************)
(* C9: ipexpr.Parse returns an error exactly when the text does not split  *)
(* into four components or some component is empty or is not a valid       *)
(* octet-expression, and then returns no pattern.  (Fails for a component  *)
(* such as "2 5": two terms without a comma are accepted.)                 *)
(***************************************************************************)
C9_ParseFailsIffInvalid ==
    pc # "start" =>
        /\ IsErr(err) <=>
              \/ Len(parts) # IPv4Len
              \/ \E i \in 1..Len(parts) : parts[i] = << >> \/ ~ValidOctetExpr(parts[i])
        /\ IsErr(err) <=> ie = NilExpr

(***************************************************************************)
(* C10: Matches returns (false, error) exactly when its argument is not a  *)
(* well-formed address (not four components, a component that is not a     *)
(* digit run, or one above 255), whatever the pattern.                     *)
(***************************************************************************)
C10_MatchesErrorIffMalformed ==
    mres.called =>
        /\ IsErr(mres.err) <=> ~WellFormed(addr)
        /\ IsErr(mres.err) => ~mres.ok

C10_Witness ==
    /\ mres.called /\ IsErr(mres.err)
    /\ expr = AllWild
    /\ Len(Split(addr)) = IPv4Len

(***************************************************************************)
(* Several callers of one compiled pattern.  Matches has a value receiver: *)
(* entering it copies the four octet sets, then ip.Parse runs; each        *)
(* iteration of its loop is a step of its own, so the calls of the callers *)
(* and the resumptions of the iterator interleave.                         *)
(***************************************************************************)
ConcAddresses == GenAddresses \cup {Filler}

\* Matches entered with a: octets is the receiver's copy, r is what ip.Parse(a) returned
enterCall(octets, a, r) ==
    IF IsErr(r.err)
      THEN [pc |-> "returned", a |-> a, octets |-> octets, ip |-> << >>, i |-> 0,
            ok |-> FALSE, err |-> r.err]
      ELSE [pc |-> "loop", a |-> a, octets |-> octets, ip |-> r.ip, i |-> 0,
            ok |-> FALSE, err |-> NoError]

\* one iteration of: for i, octet := range ip { if !ie.octets[i].Test(octet) {...} }
stepCall(cl) ==
    IF cl.i >= Len(cl.ip) THEN [cl EXCEPT !.pc = "returned", !.ok = TRUE]
    ELSE IF ~Test(cl.octets[cl.i + 1], cl.ip[cl.i + 1])
      THEN [cl EXCEPT !.pc = "returned", !.ok = FALSE]
      ELSE [cl EXCEPT !.i = cl.i + 1]

\* caller c calls ie.Matches(a); an earlier call of c has returned
MatchesEnter(c) ==
    /\ pc = "parsed"
    /\ calls[c].pc # "loop"
    /\ \E a \in ConcAddresses :
         \E r \in {ip_Parse(a)} :
            calls' = [calls EXCEPT ![c] = enterCall(ie, a, r)]
    /\ UNCHANGED <<expr, pc, ie, err, addr, mres, gpc, counter, gi, yielded, ref>>
    /\ UNCHANGED <<lexvars, parservars, bitsvars, ipvars>>

MatchesStep(c) ==
    /\ calls[c].pc = "loop"
    /\ calls' = [calls EXCEPT ![c] = stepCall(calls[c])]
    /\ UNCHANGED <<expr, pc, ie, err, addr, mres, gpc, counter, gi, yielded, ref>>
    /\ UNCHANGED <<lexvars, parservars, bitsvars, ipvars>>

\* a Generate that empties the first octet set of the pattern it iterates
GenerateAgainClearing ==
    /\ pc = "parsed"
    /\ gpc \in {"done", "stopped"}
    /\ gpc' = "running"
    /\ counter' = ZeroCounter
    /\ gi' = 0
    /\ yielded' = << >>
    /\ ie' = [ie EXCEPT ![1] = ZeroBits]
    /\ UNCHANGED <<expr, pc, err, addr, mres, ref>>
    /\ UNCHANGED <<lexvars, parservars, bitsvars, calls, ipvars>>

\* ie.Generate() called again, once the iteration before has ended
GenerateAgain ==
    /\ pc = "parsed"
    /\ gpc \in {"done", "stopped"}
    /\ gpc' = "running"
    /\ counter' = ZeroCounter
    /\ gi' = 0
    /\ yielded' = << >>
    /\ UNCHANGED <<expr, pc, ie, err, addr, mres, ref>>
    /\ UNCHANGED <<lexvars, parservars, bitsvars, calls, ipvars>>

InitConc ==
    /\ expr \in AddrPatterns
    /\ pc = "start"
    /\ ie = NilExpr
    /\ err = NoError
    /\ addr = << >>
    /\ mres = NoResult
    /\ gpc = "none"
    /\ counter = ZeroCounter
    /\ gi = 0
    /\ yielded = << >>
    /\ ref = << >>
    /\ NoLexer /\ NoParser /\ NoBits /\ NoCalls /\ NoAddress

NextConc ==
    \/ ParseCall
    \/ \E c \in Callers : MatchesEnter(c)
    \/ \E c \in Callers : MatchesStep(c)
    \/ GenerateCall
    \/ GenerateResume
    \/ GenerateAgain

SpecConc == InitConc /\ [][NextConc]_vars

\* the pattern a fresh compilation of the same text gives: ref holds the octet
\* set each component of the text compiles to, recorded when Parse returned
Fresh == ref

\* what a call of caller c returned
Returned(c) == [ok |-> calls[c].ok, err |-> calls[c].err]

(***************************************************************************)
(* C11: Matches and Generate never modify the octet sets of a compiled     *)
(* pattern: whatever calls of Matches and Generate have run or are in      *)
(* flight, the pattern equals a freshly compiled one and every Matches     *)
(* call that returns, returns what it returns on a fresh copy.             *)
(***************************************************************************)
C11_CompiledPatternNeverChanges ==
    pc = "parsed" =>
        /\ ie = Fresh
        /\ \A c \in Callers :
              calls[c].pc = "returned" => Returned(c) = Matches(Fresh, calls[c].a)

C11_Witness ==
    /\ pc = "parsed"
    /\ gpc = "running"
    /\ counter = ZeroCounter
    /\ yielded = << >>
    /\ calls[1].pc = "returned" /\ calls[1].ok
    /\ calls[2].pc = "loop" /\ calls[2].i > 1
    /\ calls[1].a # calls[2].a

\* a component the grammar of octet-expressions does not derive
Invalid(c) == c = << >> \/ ~ValidOctetExpr(c)

\* the error parseOctet wraps around a component
InvalidOctet(c) == [kind |-> "invalid octet format", text |-> c]

(***************************************************************************)
(* C12: when ipexpr.Parse fails because of an invalid component, the error *)
(* names the leftmost invalid component and the pattern is nil.  (Fails    *)
(* for "2 5.a.2.2": the component "2 5" is accepted, the error names "a".) *)
(***************************************************************************)
C12_ParseStopsAtLeftmostInvalid ==
    (pc = "failed" /\ Len(parts) = IPv4Len) =>
        /\ ie = NilExpr
        /\ \E i \in Positions :
              /\ Invalid(parts[i])
              /\ \A j \in 1..(i - 1) : ~Invalid(parts[j])
              /\ err = InvalidOctet(parts[i])

\* a compiled pattern: four octet sets
IsPattern(x) == Len(x) = IPv4Len /\ \A i \in Positions : IsOctetBits(x[i])

(***************************************************************************)
(* C13: on every text ipexpr.Parse returns either a pattern (four octet    *)
(* sets) and no error, or no pattern and an error; on every argument       *)
(* Matches returns a boolean, and false whenever it returns an error.      *)
(***************************************************************************)
C13_ResultsAreExclusive ==
    /\ pc = "parsed" => IsPattern(ie) /\ ~IsErr(err)
    /\ pc = "failed" => ie = NilExpr /\ IsErr(err)
    /\ mres.called => mres.ok \in BOOLEAN /\ (IsErr(mres.err) => ~mres.ok)

C13_Witness ==
    /\ pc = "parsed"
    /\ parts[1] # Filler
    /\ mres.called /\ IsErr(mres.err)
    /\ Len(Split(addr)) # IPv4Len

(***************************************************************************)
(* The lexer on its own: a lexer made by lexer.New on any string of at     *)
(* most MaxLexLen bytes of LexAlphabet (the NUL byte among them), and the  *)
(* tokens its NextToken calls have returned, oldest first.  The calls go   *)
(* on after the input is used up, up to MaxLexCalls.                       *)
(***************************************************************************)
MaxLexLen == 3

MaxLexCalls == MaxLexLen + 2

LexAlphabet == {nul, chSpace, d0, d2, chDash, chStar, chComma, chDot, chA, MaxByte}

\* " 007256,2": a run of six digits with leading zeros between other bytes
LongRunTexts ==
    { <<chSpace>> \o DigitText(<<0, 0, 7, 2, 5, 6>>) \o <<chComma, d2>>,
      DigitText(<<0, 0, 7, 2, 5, 6>>) }

LexInputs == Strs(LexAlphabet, MaxLexLen) \cup LongRunTexts

InitLex ==
    /\ lx \in {lexer_New(s) : s \in LexInputs}
    /\ toks = << >>
    /\ expr = << >>
    /\ pc = "start"
    /\ ie = NilExpr
    /\ err = NoError
    /\ addr = << >>
    /\ mres = NoResult
    /\ gpc = "none"
    /\ counter = ZeroCounter
    /\ gi = 0
    /\ yielded = << >>
    /\ ref = << >>
    /\ NoParser /\ NoBits /\ NoCalls /\ NoAddress

\* tkn := l.NextToken()
LexNext ==
    /\ Len(toks) < MaxLexCalls
    /\ \E r \in {NextToken(lx)} :
          /\ lx' = r.l
          /\ toks' = Append(toks, r.tok)
    /\ UNCHANGED <<expr, pc, ie, err, addr, mres, gpc, counter, gi, yielded, ref>>
    /\ UNCHANGED <<parservars, bitsvars, calls, ipvars>>

NextLex == LexNext

SpecLex == InitLex /\ [][NextLex]_vars

(***************************************************************************)
(* C14: once NextToken has returned an EOF token, every later NextToken    *)
(* call on the same lexer returns EOF with an empty literal.  (Fails for   *)
(* an input with a NUL byte before its end.)                               *)
(***************************************************************************)
C14_EOFIsFinal ==
    \A j \in 1..Len(toks) : \A k \in (j + 1)..Len(toks) :
        toks[j].Type = EOF => toks[k] = token_New(EOF, << >>)

(***************************************************************************)
(* The interval parser on its own: a parser made by parser.New on any      *)
(* string of at most MaxExprLen bytes of CompAlphabet, and Parse run on it *)
(* one iteration of the loop of parseExpr at a time.  pits is the          *)
(* intervals variable of parseExpr, pres what Parse returned.              *)
(***************************************************************************)
MaxExprLen == 4

\* 256; 2^63, one above the largest int; 2^64 + 5; and 5 after twenty zeros
LongNumberTexts ==
    { DigitText(<<2, 5, 6>>),
      DigitText(<<9, 2, 2, 3, 3, 7, 2, 0, 3, 6, 8, 5, 4, 7, 7, 5, 8, 0, 8>>),
      DigitText(<<1, 8, 4, 4, 6, 7, 4, 4, 0, 7, 3, 7, 0, 9, 5, 5, 1, 6, 2, 1>>),
      DigitText(<<0, 0, 0, 0, 0, 0, 0, 0, 0, 0, 0, 0, 0, 0, 0, 0, 0, 0, 0, 0, 5>>) }

ParseInputs == Strs(CompAlphabet, MaxExprLen) \cup LongNumberTexts

InitParse ==
    /\ pst \in {parser_New(s) : s \in ParseInputs}
    /\ pits = << >>
    /\ ppc = "loop"
    /\ pres = NoParse
    /\ expr = << >>
    /\ pc = "start"
    /\ ie = NilExpr
    /\ err = NoError
    /\ addr = << >>
    /\ mres = NoResult
    /\ gpc = "none"
    /\ counter = ZeroCounter
    /\ gi = 0
    /\ yielded = << >>
    /\ ref = << >>
    /\ NoLexer /\ NoBits /\ NoCalls /\ NoAddress

\* Parse returns r, what checkExpr made of the outcome of parseExpr
ParseReturns(r) ==
    /\ pst' = r.p
    /\ pres' = [its |-> r.its, ok |-> r.ok]
    /\ ppc' = "returned"
    /\ pits' = pits

\* an iteration of the loop of parseExpr: parseTerm, then the comma step
ParseLoopBody ==
    /\ ppc = "loop"
    /\ ~currTokenIs(pst, EOF)
    /\ \E t \in {parseTerm(pst)} :
          IF ~t.ok
            THEN \E r \in {checkExpr([its |-> << >>, ok |-> FALSE, p |-> t.p])} :
                    ParseReturns(r)
            ELSE /\ pst' = afterTerm(t.p)
                 /\ pits' = Append(pits, t.it)
                 /\ UNCHANGED <<ppc, pres>>
    /\ UNCHANGED <<expr, pc, ie, err, addr, mres, gpc, counter, gi, yielded, ref>>
    /\ UNCHANGED <<lexvars, bitsvars, calls, ipvars>>

\* the loop of parseExpr ends at EOF; Parse checks what it collected
ParseLoopExit ==
    /\ ppc = "loop"
    /\ currTokenIs(pst, EOF)
    /\ \E r \in {checkExpr([its |-> pits, ok |-> TRUE, p |-> pst])} : ParseReturns(r)
    /\ UNCHANGED <<expr, pc, ie, err, addr, mres, gpc, counter, gi, yielded, ref>>
    /\ UNCHANGED <<lexvars, bitsvars, calls, ipvars>>

NextParse == ParseLoopBody \/ ParseLoopExit

SpecParse == InitParse /\ [][NextParse]_vars

\* the text the parser was made on
ptext == pst.l.input

(***************************************************************************)
(* C15: whenever Parse returns failure, the interval sequence it returns   *)
(* is empty and Errors() holds at least one diagnostic.                    *)
(***************************************************************************)
C15_FailureIsEmptyWithDiagnostic ==
    (ppc = "returned" /\ ~pres.ok) => pres.its = << >> /\ Len(pst.errors) >= 1

C15_Witness ==
    /\ ppc = "returned" /\ ~pres.ok
    /\ pits # << >>
    /\ pres.its = << >>

(***************************************************************************)
(* The token stream of a text up to its first EOF, and the grammar         *)
(*   expr := term (COMMA term)*     term := ASTERISK | NUMBER [DASH NUMBER]*)
(* over the kinds of its tokens.                                           *)
(***************************************************************************)
RECURSIVE tokensFrom(_)
tokensFrom(l) ==
    IF NextToken(l).tok.Type = EOF THEN << >>
    ELSE <<NextToken(l).tok>> \o tokensFrom(NextToken(l).l)

TokensOf(s) == tokensFrom(lexer_New(s))

KindsOf(ts) == [k \in 1..Len(ts) |-> ts[k].Type]

\* the number of tokens of the term ks starts with: 0 if it starts with none
TermLen(ks) ==
    IF ks = << >> THEN 0
    ELSE IF ks[1] = ASTERISK THEN 1
    ELSE IF ks[1] # NUMBER THEN 0
    ELSE IF Len(ks) >= 3 /\ ks[2] = DASH /\ ks[3] = NUMBER THEN 3
    ELSE 1

RECURSIVE IsTermList(_)
IsTermList(ks) ==
    /\ TermLen(ks) > 0
    /\ \/ Len(ks) = TermLen(ks)
       \/ /\ ks[TermLen(ks) + 1] = COMMA
          /\ IsTermList(SubSeq(ks, TermLen(ks) + 2, Len(ks)))

(***************************************************************************)
(* C16: Parse succeeds only on token streams of the form                   *)
(* term (COMMA term)* EOF; two terms with no COMMA between them make it    *)
(* fail.  (Fails for "2 5" and "**": Parse succeeds.)                      *)
(***************************************************************************)
C16_SuccessOnlyOnTermLists ==
    (ppc = "returned" /\ pres.ok) => IsTermList(KindsOf(TokensOf(ptext)))

\* the diagnostic d was recorded at the token that is still the current one
AboutCurrent(d, p) ==
    CASE d.kind = "expected" -> d.found = p.currToken.Type
      [] d.kind = "numeric"  -> d.lit = p.currToken.Literal
      [] OTHER               -> p.currToken.Type = EOF

(***************************************************************************)
(* C17: parsing is eager: once a diagnostic is recorded no further token   *)
(* is consumed (every diagnostic is about the token that is still current) *)
(* and Parse returns failure; so when Parse returns success, Errors() is   *)
(* empty.  (Fails for "***" and "2 5 0": a diagnostic is recorded for the  *)
(* missing comma, parsing goes on and Parse succeeds.)                     *)
(***************************************************************************)
C17_FirstDiagnosticEndsParse ==
    /\ pst.errors # << >> =>
          /\ ppc = "returned" /\ ~pres.ok
          /\ \A k \in 1..Len(pst.errors) : AboutCurrent(pst.errors[k], pst)
    /\ (ppc = "returned" /\ pres.ok) => pst.errors = << >>

(***************************************************************************)
(* bitsvector.New on its own: called on any list of at most MaxIts         *)
(* intervals with bounds in BitsValues, then called again on the list with *)
(* an interval repeated, an interval added that the list covers, or two    *)
(* intervals swapped.  bprev keeps the set built from the list before.     *)
(***************************************************************************)
MaxIts == 2

BitsValues == {0, 2, 5, MaxByte}

BitsIntervals == {<<a, b>> : a \in BitsValues, b \in BitsValues}

IntervalLists == UNION {[1..n -> BitsIntervals] : n \in 0..MaxIts}

InitBits ==
    /\ bl \in IntervalLists
    /\ bv = ZeroBits
    /\ bprev = ZeroBits
    /\ bpc = "arg"
    /\ expr = << >>
    /\ pc = "start"
    /\ ie = NilExpr
    /\ err = NoError
    /\ addr = << >>
    /\ mres = NoResult
    /\ gpc = "none"
    /\ counter = ZeroCounter
    /\ gi = 0
    /\ yielded = << >>
    /\ ref = << >>
    /\ NoLexer /\ NoParser /\ NoCalls /\ NoAddress

\* every value of the interval it lies in some interval of the list its
Covered(its, it) == \A v \in it[1]..it[2] : InSomeInterval(its, v)

Swapped(its, j, k) == [its EXCEPT ![j] = its[k], ![k] = its[j]]

\* bv := bitsvector.New(bl)
BitsNew ==
    /\ bpc = "arg"
    /\ bv' = bitsvector_New(bl)
    /\ bpc' = "built"
    /\ UNCHANGED <<bl, bprev>>
    /\ UNCHANGED <<expr, pc, ie, err, addr, mres, gpc, counter, gi, yielded, ref>>
    /\ UNCHANGED <<lexvars, parservars, calls, ipvars>>

\* bitsvector.New called on the changed list its
BitsAgain(its) ==
    /\ bl' = its
    /\ bprev' = bv
    /\ bv' = bitsvector_New(its)
    /\ bpc' = "rebuilt"
    /\ UNCHANGED <<expr, pc, ie, err, addr, mres, gpc, counter, gi, yielded, ref>>
    /\ UNCHANGED <<lexvars, parservars, calls, ipvars>>

BitsRepeat ==
    /\ bpc = "built"
    /\ \E k \in 1..Len(bl) : BitsAgain(Append(bl, bl[k]))

BitsAddCovered ==
    /\ bpc = "built"
    /\ \E it \in {i \in BitsIntervals : Covered(bl, i)} : BitsAgain(Append(bl, it))

BitsReorder ==
    /\ bpc = "built"
    /\ \E j \in 1..Len(bl) : \E k \in (j + 1)..Len(bl) : BitsAgain(Swapped(bl, j, k))

NextBits == BitsNew \/ BitsRepeat \/ BitsAddCovered \/ BitsReorder

SpecBits == InitBits /\ [][NextBits]_vars

(***************************************************************************)
(* C18: bitsvector.New returns the all-set constant when the list is       *)
(* exactly the one interval {255,255}; for every other list the set holds  *)
(* exactly the values inside its intervals.                                *)
(***************************************************************************)
C18_FastPathOnlyFor255 ==
    bpc \in {"built", "rebuilt"} =>
        IF bl = <<<<MaxByte, MaxByte>>>>
          THEN bv = AllSet /\ \A v \in Bytes : Test(bv, v)
          ELSE \A v \in Bytes : Test(bv, v) <=> InSomeInterval(bl, v)

C18_Witness ==
    /\ bpc = "built"
    /\ bl = <<<<MaxByte, MaxByte>>>>
    /\ Members(bv) = Bytes

(***************************************************************************)
(* C19: the members of a built set depend only on the union of the         *)
(* intervals: repeating an interval, adding a covered one or reordering    *)
(* the list gives a set with the same members.  (Fails for the list        *)
(* [{255,255}]: repeated, it holds 255 only.)                              *)
(***************************************************************************)
C19_MembersDependOnUnionOnly ==
    bpc = "rebuilt" => Members(bv) = Members(bprev)

(***************************************************************************)
(* The intervals the terms of a token stream stand for, in source order:   *)
(* ASTERISK is {0,255}, NUMBER DASH NUMBER is {s,e}, a NUMBER alone is     *)
(* {n,n}; a number is the decimal value of its digit run.  Commas separate *)
(* terms and stand for nothing.                                            *)
(***************************************************************************)
NumberOf(t) == DecValue(t.Literal)

RECURSIVE TermIntervals(_)
TermIntervals(ts) ==
    IF ts = << >> THEN << >>
    ELSE IF ts[1].Type = COMMA THEN TermIntervals(Tail(ts))
    ELSE IF ts[1].Type = ASTERISK
      THEN <<<<0, MaxByte>>>> \o TermIntervals(Tail(ts))
    ELSE IF Len(ts) >= 3 /\ ts[2].Type = DASH /\ ts[3].Type = NUMBER
      THEN <<<<NumberOf(ts[1]), NumberOf(ts[3])>>>>
               \o TermIntervals(SubSeq(ts, 4, Len(ts)))
    ELSE <<<<NumberOf(ts[1]), NumberOf(ts[1])>>>> \o TermIntervals(Tail(ts))

(***************************************************************************)
(* C20: on a successful parse the interval sequence has one interval per   *)
(* term, in source order: "*" gives {0,255}, a bare number n gives {n,n}   *)
(* and "s-e" gives {s,e}, each number being the decimal value of its digit *)
(* run, leading zeros ignored.                                             *)
(***************************************************************************)
C20_OneIntervalPerTerm ==
    (ppc = "returned" /\ pres.ok) => pres.its = TermIntervals(TokensOf(ptext))

\* "02,5" and the like: two terms around a comma, the first with a leading zero
C20_Witness ==
    /\ ppc = "returned" /\ pres.ok
    /\ Len(ptext) = MaxExprLen
    /\ ptext[1] = ch0 /\ ptext[3] = chComma
    /\ Len(pres.its) = 2
    /\ pres.its[1][1] > 0
    /\ pres.its[2][1] # pres.its[1][1]


(***************************************************************************)
(* C21: a NUMBER token is accepted exactly when its digit run denotes an   *)
(* integer in 0..255.  A successful Parse has met only such NUMBER tokens; *)
(* a text holding a NUMBER token above 255 (however long) makes Parse      *)
(* fail; and when Parse fails at a NUMBER token, that token is above 255   *)
(* and Errors() holds "numeric value <literal> is not valid" for it.       *)
(***************************************************************************)
NumberTokens(s) ==
    {TokensOf(s)[k] : k \in {j \in 1..Len(TokensOf(s)) : TokensOf(s)[j].Type = NUMBER}}

HasDiagnostic(p, d) == \E k \in 1..Len(p.errors) : p.errors[k] = d

C21_NumberAcceptedIffByte ==
    ppc = "returned" =>
       /\ pres.ok => \A t \in NumberTokens(ptext) : IsByteText(t.Literal)
       /\ (\E t \in NumberTokens(ptext) : ~IsByteText(t.Literal)) => ~pres.ok
       /\ (~pres.ok /\ currTokenIs(pst, NUMBER)) =>
             /\ ~IsByteText(pst.currToken.Literal)
             /\ HasDiagnostic(pst, NotValid(pst.currToken.Literal))

\* Parse has failed at a literal too long for a machine integer
C21_Witness ==
    /\ ppc = "returned" /\ ~pres.ok
    /\ currTokenIs(pst, NUMBER)
    /\ Len(pst.currToken.Literal) >= Len(MaxInt64Digits)
    /\ HasDiagnostic(pst, NotValid(pst.currToken.Literal))


(***************************************************************************)
(* C22: an octet-expression with no term (the empty text, or space         *)
(* characters only) makes Parse fail with the diagnostic "a valid octet    *)
(* should have at least 1 range"; a successful Parse never returns an      *)
(* empty interval sequence.                                                *)
(***************************************************************************)
OnlySpaces(s) == \A k \in 1..Len(s) : s[k] = chSpace

C22_NoTermFailsWithAtLeastOne ==
    ppc = "returned" =>
       /\ OnlySpaces(ptext) => ~pres.ok /\ HasDiagnostic(pst, AtLeastOne)
       /\ pres.ok => pres.its # << >>

C22_Witness ==
    /\ ppc = "returned" /\ ~pres.ok
    /\ ptext # << >> /\ OnlySpaces(ptext)
    /\ pst.errors = <<AtLeastOne>>


(***************************************************************************)
(* Where the grammar  expr := term (COMMA term)*  meets a malformed term.  *)
(* ks are the kinds of the tokens before EOF; the token after the last one *)
(* is EOF.  A term starts at the first token and after every COMMA that    *)
(* follows a term.  FoundAtTerm(ts, k) is the kind found where a NUMBER    *)
(* was needed, in the first malformed term from the one starting at k on;  *)
(* it is NoKind when the terms are well formed up to the end, up to a      *)
(* missing COMMA or up to a number above 255.                              *)
(***************************************************************************)
NoKind == ""

KindAt(ts, k) == IF k <= Len(ts) THEN ts[k].Type ELSE EOF

ByteAt(ts, k) == KindAt(ts, k) = NUMBER /\ IsByteText(ts[k].Literal)

RECURSIVE FoundAtTerm(_, _)
FoundAfterTerm(ts, k) ==
    IF KindAt(ts, k) = COMMA THEN FoundAtTerm(ts, k + 1) ELSE NoKind

FoundAtTerm(ts, k) ==
    IF KindAt(ts, k) = ASTERISK THEN FoundAfterTerm(ts, k + 1)
    ELSE IF KindAt(ts, k) # NUMBER THEN KindAt(ts, k)
    ELSE IF ~ByteAt(ts, k) THEN NoKind
    ELSE IF KindAt(ts, k + 1) # DASH THEN FoundAfterTerm(ts, k + 1)
    ELSE IF KindAt(ts, k + 2) # NUMBER THEN KindAt(ts, k + 2)
    ELSE IF ~ByteAt(ts, k + 2) THEN NoKind
    ELSE FoundAfterTerm(ts, k + 3)

\* the kind found at the first malformed term of the text s; an empty
\* expression has no term
FoundAtMalformedTerm(s) ==
    IF TokensOf(s) = << >> THEN NoKind ELSE FoundAtTerm(TokensOf(s), 1)

txtInvalidOctet ==
    <<105, 110, 118, 97, 108, 105, 100, 32, 111, 99, 116, 101, 116, 32,
      102, 111, 114, 109, 97, 116, 32, 105, 110, 32>>

\* "invalid ip expression: "
txtInvalidExpr ==
    <<105, 110, 118, 97, 108, 105, 100, 32, 105, 112, 32, 101, 120, 112,
      114, 101, 115, 115, 105, 111, 110, 58, 32>>

\* "expected current token type is "
txtExpected ==
    <<101, 120, 112, 101, 99, 116, 101, 100, 32, 99, 117, 114, 114, 101,
      110, 116, 32, 116, 111, 107, 101, 110, 32, 116, 121, 112, 101, 32,
      105, 115, 32>>

\* ", found "
txtFound ==
    <<44, 32, 102, 111, 117, 110, 100, 32>>

\* "numeric value "
txtNumeric ==
    <<110, 117, 109, 101, 114, 105, 99, 32, 118, 97, 108, 117, 101, 32>>

\* " is not valid"
txtNotValid ==
    <<32, 105, 115, 32, 110, 111, 116, 32, 118, 97, 108, 105, 100>>

\* "a valid octet should have at least 1 range"
txtAtLeastOne ==
    <<97, 32, 118, 97, 108, 105, 100, 32, 111, 99, 116, 101, 116, 32, 115,
      104, 111, 117, 108, 100, 32, 104, 97, 118, 101, 32, 97, 116, 32, 108,
      101, 97, 115, 116, 32, 49, 32, 114, 97, 110, 103, 101>>

\* the bytes of a token.Type: the name of the kind
TypeText(t) ==
    CASE t = EOF      -> <<69, 79, 70>>
      [] t = ILLEGAL  -> <<73, 76, 76, 69, 71, 65, 76>>
      [] t = NUMBER   -> <<78, 85, 77, 66, 69, 82>>
      [] t = DASH     -> <<68, 65, 83, 72>>
      [] t = ASTERISK -> <<65, 83, 84, 69, 82, 73, 83, 75>>
      [] t = COMMA    -> <<67, 79, 77, 77, 65>>
      [] OTHER        -> << >>

\* the message of a diagnostic of the parser
DiagnosticText(d) ==
    CASE d.kind = "expected" -> txtExpected \o TypeText(d.want) \o txtFound \o TypeText(d.found)
      [] d.kind = "numeric"  -> txtNumeric \o d.lit \o txtNotValid
      [] OTHER               -> txtAtLeastOne

\* err.Error() of an error of package ipexpr
ErrorText(e) ==
    CASE e.kind = "invalid octet format"  -> txtInvalidOctet \o e.text
      [] e.kind = "invalid ip expression" -> txtInvalidExpr \o e.text
      [] OTHER                            -> << >>

\* the text t occurs in the text s
Contains(s, t) == \E k \in 0..(Len(s) - Len(t)) : SubSeq(s, k + 1, k + Len(t)) = t

\* Errors() of the interval parser after Parse on the component o
DiagnosticsOf(o) == parser_Parse(parser_New(o)).p.errors

(***************************************************************************)
(* C24: when a component fails to parse, the error ipexpr.Parse returns    *)
(* surfaces the interval parser's diagnostic for that component: its       *)
(* message holds a message of the parser's Errors().  (Fails: the error    *)
(* is the fixed text "invalid octet format in" and the component.)         *)
(***************************************************************************)
C24_ErrorSurfacesDiagnostic ==
    (pc = "failed" /\ err.kind = "invalid octet format") =>
        \E k \in 1..Len(DiagnosticsOf(err.text)) :
            Contains(ErrorText(err), DiagnosticText(DiagnosticsOf(err.text)[k]))


(***************************************************************************)
(* ip.Parse run on its own, on the address texts of RichAddresses and on   *)
(* texts with a long component.                                            *)
(***************************************************************************)
\* 000255, 000256, 2^64 + 5 and 5 after twenty zeros
LongAddrComps ==
    { DigitText(<<0, 0, 0, 2, 5, 5>>),
      DigitText(<<0, 0, 0, 2, 5, 6>>),
      DigitText(<<1, 8, 4, 4, 6, 7, 4, 4, 0, 7, 3, 7, 0, 9, 5, 5, 1, 6, 2, 1>>),
      DigitText(<<0, 0, 0, 0, 0, 0, 0, 0, 0, 0, 0, 0, 0, 0, 0, 0, 0, 0, 0, 0, 5>>) }

IPInputs ==
    RichAddresses \cup {OneVaried(pos, c) : pos \in 1..IPv4Len, c \in LongAddrComps}

InitIP ==
    /\ ipin \in IPInputs
    /\ ipres = [ip |-> IPv4zero, err |-> NoError]
    /\ ipc = "arg"
    /\ expr = << >>
    /\ pc = "start"
    /\ ie = NilExpr
    /\ err = NoError
    /\ addr = << >>
    /\ mres = NoResult
    /\ gpc = "none"
    /\ counter = ZeroCounter
    /\ gi = 0
    /\ yielded = << >>
    /\ ref = << >>
    /\ NoLexer /\ NoParser /\ NoBits /\ NoCalls

\* ipres := ip.Parse(ipin)
IPParse ==
    /\ ipc = "arg"
    /\ ipres' = ip_Parse(ipin)
    /\ ipc' = "returned"
    /\ UNCHANGED ipin
    /\ UNCHANGED <<expr, pc, ie, err, addr, mres, gpc, counter, gi, yielded, ref>>
    /\ UNCHANGED <<lexvars, parservars, bitsvars, calls>>

NextIP == IPParse

SpecIP == InitIP /\ [][NextIP]_vars

(***************************************************************************)
(* C25: ip.Parse succeeds exactly on texts of four '.'-separated           *)
(* components, each a non-empty run of decimal digits of value at most 255 *)
(* (leading zeros allowed; no sign, space or other character), and then    *)
(* returns the four bytes of those values in order; every other text       *)
(* returns an error.                                                       *)
(***************************************************************************)
C25_AddressParsesIffWellFormed ==
    ipc = "returned" =>
        /\ IsErr(ipres.err) <=> ~WellFormed(ipin)
        /\ ~IsErr(ipres.err) =>
              /\ Len(ipres.ip) = IPv4Len
              /\ \A i \in Positions : ipres.ip[i] = AddrBytes(ipin)[i]

\* success on a text with a component of more than three digits
C25_Witness ==
    /\ ipc = "returned" /\ ~IsErr(ipres.err)
    /\ \E i \in Positions : Len(Split(ipin)[i]) > 3 /\ ipres.ip[i] = MaxByte


(***************************************************************************)
(* Where a NextToken call is positioned: the first byte at or after the    *)
(* lexer's position that is no space (an index from 1; one past the end    *)
(* if there is none), and the token the last call returned.                *)
(***************************************************************************)
RECURSIVE FirstNonSpace(_, _)
FirstNonSpace(s, k) ==
    IF k > Len(s) \/ s[k] # chSpace THEN k ELSE FirstNonSpace(s, k + 1)

TokenStart(l) == FirstNonSpace(l.input, l.position + 1)

IsSpecialByte(b) == b \in {chSpace, chDash, chStar, chComma} \/ (ch0 <= b /\ b <= ch9)

\* the call of this step is positioned at a byte of the input, at index k
PositionedAt(k) ==
    /\ Len(toks') = Len(toks) + 1
    /\ k = TokenStart(lx)
    /\ k <= Len(lx.input)

(***************************************************************************)
(* C26: for every byte b that is no space, digit, '-', '*' or ',', a       *)
(* NextToken call positioned at an occurrence of b returns an ILLEGAL      *)
(* token whose literal is that one byte, and advances past exactly that    *)
(* byte.  (Fails for the byte 0: the call returns EOF.)                    *)
(***************************************************************************)
C26_OtherByteIsIllegal ==
    [][\A k \in 1..Len(lx.input) :
          (PositionedAt(k) /\ ~IsSpecialByte(lx.input[k])) =>
              /\ toks'[Len(toks')] = token_New(ILLEGAL, <<lx.input[k]>>)
              /\ lx'.position = k
              /\ lx'.readPosition = k + 1]_vars


(***************************************************************************)
(* C27: a NextToken call positioned at a digit returns one NUMBER token    *)
(* whose literal is the maximal run of digits starting there, copied       *)
(* verbatim, and leaves the lexer at the first byte after the run: no      *)
(* byte is skipped or read twice.                                          *)
(***************************************************************************)
IsDigitByte(b) == ch0 <= b /\ b <= ch9

\* the index of the last digit of the maximal run of digits that holds s[k]
RECURSIVE RunEnd(_, _)
RunEnd(s, k) ==
    IF k < Len(s) /\ IsDigitByte(s[k + 1]) THEN RunEnd(s, k + 1) ELSE k

\* the lexer l is at the byte of index k of its input (at the end mark, if
\* k is past the end)
LexerAt(l, k) ==
    /\ l.position = k - 1
    /\ l.readPosition = k
    /\ l.ch = IF k <= Len(l.input) THEN l.input[k] ELSE nul

C27_NumberIsMaximalDigitRun ==
    [][\A k \in 1..Len(lx.input) :
          (PositionedAt(k) /\ IsDigitByte(lx.input[k])) =>
              /\ toks'[Len(toks')] =
                    token_New(NUMBER, SubSeq(lx.input, k, RunEnd(lx.input, k)))
              /\ LexerAt(lx', RunEnd(lx.input, k) + 1)]_vars

\* the token of a run of more than three digits with a leading zero was
\* returned, and the lexer is at the comma after it
C27_Witness ==
    /\ toks # << >>
    /\ toks[Len(toks)].Type = NUMBER
    /\ Len(toks[Len(toks)].Literal) > 3
    /\ toks[Len(toks)].Literal[1] = ch0
    /\ lx.ch = chComma


(***************************************************************************)
(* The texts made from s by putting space characters before, between or    *)
(* after its tokens: up to MaxSpaces spaces at one or two places, none of  *)
(* them between two digits of a run.                                       *)
(***************************************************************************)
MaxSpaces == 2

Boundaries(s) ==
    {j \in 0..Len(s) :
        ~(j >= 1 /\ j < Len(s) /\ IsDigitByte(s[j]) /\ IsDigitByte(s[j + 1]))}

InsertAt(s, j, t) == SubSeq(s, 1, j) \o t \o SubSeq(s, j + 1, Len(s))

Spaces(n) == [k \in 1..n |-> chSpace]

SpacedOnce(s) == {InsertAt(s, j, Spaces(n)) : j \in Boundaries(s), n \in 1..MaxSpaces}

Spaced(s) == SpacedOnce(s) \cup UNION {SpacedOnce(v) : v \in SpacedOnce(s)}

\* what Parse returns on a new parser for the text s
ParseOf(s) == parser_Parse(parser_New(s))

(***************************************************************************)
(* C28: putting space characters before, between or after the tokens of   *)
(* an octet-expression that parses successfully gives an expression that   *)
(* parses to the same interval sequence; only the space character is       *)
(* skipped (a tab put at any of these places makes Parse fail).            *)
(***************************************************************************)
C28_SpacesBetweenTokensIgnored ==
    (ppc = "returned" /\ pres.ok) =>
        /\ \A v \in Spaced(ptext) : ParseOf(v).ok /\ ParseOf(v).its = pres.its
        /\ \A j \in Boundaries(ptext) : ~ParseOf(InsertAt(ptext, j, <<chTab>>)).ok

\* "2,5" and the like: two terms and no space, parsed; with spaces around
\* the comma the intervals are the same
C28_Witness ==
    /\ ppc = "returned" /\ pres.ok
    /\ Len(pres.its) = 2
    /\ Len(ptext) = 3 /\ ptext[2] = chComma
    /\ ParseOf(<<ptext[1], chSpace, chSpace, chComma, chSpace, ptext[3]>>).its = pres.its


(***************************************************************************)
(* The lexer and the parser together: runs of NextToken calls on a lexer   *)
(* and runs of Parse on a parser.                                          *)
(***************************************************************************)
InitTerm == InitLex \/ InitParse

NextTerm == NextLex \/ NextParse

SpecTerm == InitTerm /\ [][NextTerm]_vars

\* the tokens Parse has not consumed yet: the lookahead tokens that are no
\* EOF and the tokens the lexer has still to return
Pending(t) == IF t.Type = EOF THEN 0 ELSE 1

Remaining(p) == Pending(p.currToken) + Pending(p.peekToken) + Len(tokensFrom(p.l))

\* this step is an iteration of the term loop of parseExpr
LoopIteration ==
    /\ ppc = "loop"
    /\ ~currTokenIs(pst, EOF)
    /\ parservars' # parservars

(***************************************************************************)
(* C29: Parse terminates on every finite input.  Every NextToken call that *)
(* does not return EOF advances the lexer's read position by at least one  *)
(* byte; every iteration of the term loop either returns failure or        *)
(* consumes at least one token; so the iterations that went through and    *)
(* the tokens still to consume are never more than the tokens of the       *)
(* input.                                                                  *)
(***************************************************************************)
C29_ParseTerminates ==
    [][/\ (Len(toks') = Len(toks) + 1 /\ toks'[Len(toks')].Type # EOF) =>
              lx'.readPosition >= lx.readPosition + 1
       /\ LoopIteration =>
              \/ ppc' = "returned" /\ ~pres'.ok
              \/ /\ ppc' = "loop" /\ Len(pits') = Len(pits) + 1
                 /\ Remaining(pst') < Remaining(pst)
       /\ ppc' = "loop" =>
              Len(pits') + Remaining(pst') <= Len(TokensOf(pst'.l.input))]_vars

\* Parse has returned after as many iterations as the text has terms, all
\* tokens consumed
C29_Witness ==
    /\ ppc = "returned" /\ pres.ok
    /\ Len(pits) = 2
    /\ Len(TokensOf(ptext)) = 3
    /\ Remaining(pst) = 0


====
